---------------------------- MODULE Spec2Model ----------------------------
(***************************************************************************)
(* A model of the useCachedVideo hook (src/unnamed/part_000).              *)
(*                                                                         *)
(* The hook's React state (videoSource, isLoading, error, cacheProgress,   *)
(* isCached), its props (source, options), the file system it talks to     *)
(* through expo-file-system (the cache directory and its entries) and the  *)
(* asynchronous invocations that are suspended at an await                 *)
(* (handleVideoSource, downloadVideo, clearCache) are the state.  One      *)
(* action models what one invocation does between two awaits: JavaScript   *)
(* runs that stretch of code without interleaving.                         *)
(*                                                                         *)
(* URLs, file names and paths are sequences of tokens, so that the string  *)
(* operations of getCacheFilename (split, includes) are computed, not      *)
(* assumed.  Sizes are in MB, the unit of options.maxCacheSize.            *)
(***************************************************************************)
EXTENDS Integers, Sequences, FiniteSets, Bags, TLC

VARIABLES
    source,         \* the source prop: [uri, useCaching]
    options,        \* mergedOptions: [enableCaching, enablePreload]
    videoSource,    \* useState videoSource (its uri)
    isLoading,      \* useState isLoading
    error,          \* useState error
    cacheProgress,  \* useState cacheProgress
    isCached,       \* useState isCached
    dirExists,      \* file system: does cacheDir exist
    files,          \* file system: the entries of cacheDir
    checks,         \* bag of handleVideoSource invocations awaiting checkIfCached
    downloads,      \* bag of downloadVideo invocations, each at its await
    clears,         \* bag of clearCache invocations, each at its await
    settled,        \* has the effect of the current source finished
    cleared,        \* outcome of the last clearCache that returned, until the next write
    nCalls,         \* how many calls (source changes, preloadVideo, clearCache) were made
    nFaults         \* how many storage and transport operations have failed

vars == <<source, options, videoSource, isLoading, error, cacheProgress, isCached,
          dirExists, files, checks, downloads, clears, settled, cleared,
          nCalls, nFaults>>

(***************************************************************************)
(* Bounds of the model.                                                    *)
(***************************************************************************)
MaxCalls == 2
MaxFaults == 1

\* the source changes of the request-and-fetch scenario
MaxRequests == 3

\* the largest byte count of a progress event
MaxBytes == 2

\* options.maxCacheSize, in MB (a small value instead of the default 500)
maxCacheSize == 10

(***************************************************************************)
(* Strings as token sequences.                                             *)
(***************************************************************************)
Empty == << >>

IndexesOf(s, tok) == {i \in 1..Len(s) : s[i] = tok}

SetMax(S) == CHOOSE x \in S : \A y \in S : y <= x

SetMin(S) == CHOOSE x \in S : \A y \in S : x <= y

\* String.prototype.includes
Includes(s, tok) == IndexesOf(s, tok) # {}

\* s.split(tok)[s.split(tok).length - 1]
LastPart(s, tok) ==
    IF Includes(s, tok)
    THEN SubSeq(s, SetMax(IndexesOf(s, tok)) + 1, Len(s))
    ELSE s

\* s.split(tok)[0]
FirstPart(s, tok) ==
    IF Includes(s, tok)
    THEN SubSeq(s, 1, SetMin(IndexesOf(s, tok)) - 1)
    ELSE s

UrlA == <<"https:", "/", "/", "cdn", "/", "a", ".", "mp4">>
UrlB == <<"https:", "/", "/", "cdn", "/", "b", ".", "mp4", "?", "k">>
UrlX == <<"https:", "/", "/", "cdn", "/", "live", "/", "x">>

Urls == {UrlA, UrlX}

\* `${FileSystem.documentDirectory}${mergedOptions.cacheDirectory}/`
cacheDir == <<"file:", "/", "/", "doc", "/", "videos", "/">>

getCacheFilename(url, timestamp) ==
    LET filename == LastPart(url, "/")
    IN  IF ~Includes(filename, ".")
        THEN <<"video_", ToString(timestamp), ".", "mp4">>
        ELSE IF Includes(filename, "?") THEN FirstPart(filename, "?") ELSE filename

getCacheFilePath(url, timestamp) == cacheDir \o getCacheFilename(url, timestamp)


(***************************************************************************)
(* The file system behind expo-file-system.  An entry of the cache         *)
(* directory is [name, size, mtime, isDirectory].                          *)
(***************************************************************************)
File(name, size, mtime) ==
    [name |-> name, size |-> size, mtime |-> mtime, isDirectory |-> FALSE]

NameA == <<"a", ".", "mp4">>
NameB == <<"b", ".", "mp4">>
NameO == <<"o", ".", "mp4">>
NameT == <<"tmp">>

\* The contents the cache directory may have when the hook is mounted: what
\* earlier sessions left there.
InitDisks ==
    { [dirExists |-> FALSE, files |-> {}],
      [dirExists |-> TRUE,
       files |-> {File(NameA, 5, -1), File(NameO, 5, 0),
                  [name |-> NameT, size |-> 1, mtime |-> -2, isDirectory |-> TRUE]}],
      [dirExists |-> TRUE,
       files |-> {File(NameA, 5, -1), File(NameO, 5, -2), File(NameB, 5, 0)}] }

\* The sizes a completed download may have, and the size of a partial one.
FullSizes == {5}
PartialSizes == {1}

\* FileSystem.getInfoAsync(path).exists for a path inside cacheDir
StatExists(path) == \E f \in files : cacheDir \o f.name = path

\* the entries other than the one a write to `name` replaces
Without(name) == {f \in files : f.name # name}

RECURSIVE SumSizes(_)
SumSizes(S) ==
    IF S = {} THEN 0
    ELSE LET f == CHOOSE x \in S : TRUE IN f.size + SumSizes(S \ {f})

(***************************************************************************)
(* Bags of suspended invocations.                                          *)
(***************************************************************************)
Add(B, e) == B (+) SetToBag({e})

Remove(B, e) == B (-) SetToBag({e})

NoError == "null"

\* Date.now(), also the file system's modification clock: it ticks with every
\* call of the hook's interface, so that calls are made at different times and
\* what runs between two calls runs at one time
now == nCalls

\* a storage or transport operation fails, or does not
Faulty(fault) ==
    /\ fault => nFaults < MaxFaults
    /\ nFaults' = IF fault THEN nFaults + 1 ELSE nFaults

\* a downloadVideo invocation that has just called ensureCacheDirectory
NewDownload(url, origin) ==
    [url |-> url, origin |-> origin, pc |-> "ensure", path |-> Empty,
     snap |-> << >>, i |-> 0, cur |-> 0, total |-> 0, solo |-> TRUE, nofault |-> TRUE]

\* a downloadVideo invocation whose manageCacheSize has returned, its locals gone
Past(d) == [NewDownload(d.url, d.origin) EXCEPT !.pc = "recheck", !.path = d.path]

\* another invocation changed the directory under an eviction pass, or after it
Disturbed(d) ==
    IF d.pc = "evict" THEN [d EXCEPT !.solo = FALSE]
    ELSE IF d.pc = "recheck" THEN Past(d)
    ELSE d

Init ==
    /\ source = [uri |-> Empty, useCaching |-> TRUE]
    /\ options \in [enableCaching : BOOLEAN, enablePreload : BOOLEAN]
    /\ videoSource = Empty
    /\ isLoading = FALSE
    /\ error = NoError
    /\ cacheProgress = 0
    /\ isCached = FALSE
    /\ \E disk \in InitDisks : dirExists = disk.dirExists /\ files = disk.files
    /\ checks = EmptyBag
    /\ downloads = EmptyBag
    /\ clears = EmptyBag
    /\ settled = TRUE
    /\ cleared = [status |-> "no", had |-> {}]
    /\ nCalls = 0
    /\ nFaults = 0

(***************************************************************************)
(* The main effect: the source prop changes and handleVideoSource runs up  *)
(* to its first await.                                                     *)
(***************************************************************************)
CachingOff(src) == ~options.enableCaching \/ src.useCaching = FALSE

\* an invocation of handleVideoSource whose source is no longer the hook's source
Superseded(c) == [c EXCEPT !.current = FALSE]

Request(uri, useCaching) ==
    LET src == [uri |-> uri, useCaching |-> useCaching] IN
    /\ src # source
    /\ source' = src
    /\ nCalls' = nCalls + 1
    /\ IF uri = Empty
       THEN /\ videoSource' = Empty
            /\ settled' = TRUE
            /\ checks' = BagOfAll(Superseded, checks)
            /\ UNCHANGED <<isLoading, error>>
       ELSE IF CachingOff(src)
       THEN /\ videoSource' = uri
            /\ settled' = TRUE
            /\ checks' = BagOfAll(Superseded, checks)
            /\ UNCHANGED <<isLoading, error>>
       ELSE /\ isLoading' = TRUE
            /\ error' = NoError
            /\ checks' = Add(BagOfAll(Superseded, checks),
                              [uri |-> uri, path |-> getCacheFilePath(uri, nCalls + 1),
                               current |-> TRUE])
            /\ settled' = FALSE
            /\ UNCHANGED videoSource
    /\ UNCHANGED <<options, cacheProgress, isCached, dirExists, files, downloads,
                   clears, cleared, nFaults>>

\* the caller changes the source prop, within the model's budget of calls
SetRequest(uri, useCaching) ==
    /\ nCalls < MaxCalls
    /\ Request(uri, useCaching)

\* mutant of checkIfCached: a storage error counts as "cached"
checkIfCached_FaultIsHit(path, fault) == fault \/ StatExists(path)

\* mutant of checkIfCached: the file is never found
checkIfCached_NeverFound(path, fault) == FALSE

\* checkIfCached, from the stat's completion on: any storage error is "not cached"
checkIfCached(path, fault) == ~fault /\ StatExists(path)

\* mutant of ServeOnMiss: the local path is served although nothing is there yet
ServeOnMiss_LocalPath(uri) == getCacheFilePath(uri, now)

\* what handleVideoSource serves when the check says "not cached"
ServeOnMiss(uri) == uri

\* mutant of ServeOnHit: the remote identifier is served although the file is cached
ServeOnHit_Remote(uri) == uri

\* what handleVideoSource serves when the check says "cached"
ServeOnHit(uri) == getCacheFilePath(uri, now)

\* checkIfCached resolves and handleVideoSource runs to its end.  Its catch block
\* is never entered: checkIfCached swallows its errors and downloadVideo is not
\* awaited.  downloadVideo, when called, runs up to its first await inside this
\* step, so the finally block's setIsLoading(false) comes after its
\* setIsLoading(true).
CheckSettle(c, fault) ==
    /\ Faulty(fault)
    /\ c \in BagToSet(checks)
    /\ checks' = Remove(checks, c)
    /\ settled' = (settled \/ c.current)
    /\ isLoading' = FALSE
    /\ IF checkIfCached(c.path, fault)
       THEN /\ videoSource' = ServeOnHit(c.uri)
            /\ isCached' = TRUE
            /\ UNCHANGED <<error, cacheProgress, downloads>>
       ELSE /\ videoSource' = ServeOnMiss(c.uri)
            /\ isCached' = FALSE
            /\ IF options.enablePreload
               THEN /\ error' = NoError
                    /\ cacheProgress' = 0
                    /\ downloads' = Add(downloads, NewDownload(c.uri, "effect"))
               ELSE UNCHANGED <<error, cacheProgress, downloads>>
    /\ UNCHANGED <<source, options, dirExists, files, clears, cleared, nCalls>>

\* preloadVideo(url), up to downloadVideo's first await
Preload(url) ==
    /\ nCalls < MaxCalls
    /\ nCalls' = nCalls + 1
    /\ IF ~options.enableCaching
       THEN UNCHANGED <<isLoading, error, cacheProgress, downloads>>
       ELSE /\ isLoading' = TRUE
            /\ error' = NoError
            /\ cacheProgress' = 0
            /\ downloads' = Add(downloads, NewDownload(url, "preload"))
    /\ UNCHANGED <<source, options, videoSource, isCached, dirExists, files,
                   checks, clears, settled, cleared, nFaults>>

(***************************************************************************)
(* downloadVideo, one action per await.                                    *)
(***************************************************************************)
\* mutant of Throw: the catch block without the finally block
Throw_NoFinally(d, message) ==
    /\ error' = message
    /\ UNCHANGED isLoading
    /\ downloads' = Remove(downloads, d)

\* the catch and finally blocks of downloadVideo
Throw(d, message) ==
    /\ error' = message
    /\ isLoading' = FALSE
    /\ downloads' = Remove(downloads, d)

\* ensureCacheDirectory: getInfoAsync(cacheDir) resolves
DlEnsure(d, fault) ==
    /\ Faulty(fault)
    /\ d \in BagToSet(downloads)
    /\ d.pc = "ensure"
    /\ IF fault
       THEN Throw(d, "storage error")
       ELSE /\ downloads' = Add(Remove(downloads, d),
                                [d EXCEPT !.pc = IF dirExists THEN "readdir" ELSE "mkdir"])
            /\ UNCHANGED <<error, isLoading>>
    /\ UNCHANGED <<source, options, videoSource, cacheProgress, isCached, dirExists,
                   files, checks, clears, settled, cleared, nCalls>>

\* ensureCacheDirectory: makeDirectoryAsync(cacheDir, {intermediates: true}) resolves
DlMkdir(d, fault) ==
    /\ Faulty(fault)
    /\ d \in BagToSet(downloads)
    /\ d.pc = "mkdir"
    /\ IF fault
       THEN /\ Throw(d, "storage error")
            /\ UNCHANGED dirExists
       ELSE /\ dirExists' = TRUE
            /\ downloads' = Add(Remove(downloads, d), [d EXCEPT !.pc = "readdir"])
            /\ UNCHANGED <<error, isLoading>>
    /\ UNCHANGED <<source, options, videoSource, cacheProgress, isCached,
                   files, checks, clears, settled, cleared, nCalls>>

(***************************************************************************)
(* manageCacheSize, inside downloadVideo.                                  *)
(***************************************************************************)
\* fileInfos.filter(file => file.exists && !file.isDirectory)
existingFiles == {f \in files : ~f.isDirectory}

\* The results Array.prototype.sort may give for (a, b) => timeA - timeB: every
\* order with ascending modification times; entries with equal times keep the
\* order readDirectoryAsync listed them in, which is any order.
RECURSIVE sortedFiles(_)
sortedFiles(S) ==
    IF S = {} THEN {<< >>}
    ELSE UNION { { <<f>> \o rest : rest \in sortedFiles(S \ {f}) } :
                 f \in {x \in S : \A y \in S : x.mtime <= y.mtime} }

\* mutant of BelowLowWater: the loop stops at the ceiling, not at 80% of it
BelowLowWater_Ceiling(currentSize) == currentSize <= maxCacheSize

\* currentSize <= mergedOptions.maxCacheSize * 0.8
BelowLowWater(currentSize) == 5 * currentSize <= 4 * maxCacheSize

\* mutant of OverLimit: the pass starts above the low-water mark already
OverLimit_LowWater(totalSize) == 5 * totalSize > 4 * maxCacheSize

\* totalSizeMB > mergedOptions.maxCacheSize
OverLimit(totalSize) == totalSize > maxCacheSize

\* manageCacheSize has returned: downloadVideo computes filePath and calls
\* checkIfCached, which suspends at its stat.  What an undisturbed pass over a
\* directory above the limit did stays on record until the directory changes.
AfterManage(d, nofault) ==
    LET here == [d EXCEPT !.pc = "recheck", !.path = getCacheFilePath(d.url, now),
                          !.nofault = nofault]
    IN  IF OverLimit(d.total) /\ d.solo THEN here ELSE Past(here)

\* readDirectoryAsync and the getInfoAsync of every entry resolve; the loop runs
\* up to its first deleteAsync
DlReadDir(d, fault) ==
    /\ Faulty(fault)
    /\ d \in BagToSet(downloads)
    /\ d.pc = "readdir"
    /\ IF fault \/ ~dirExists
       THEN downloads' = Add(Remove(downloads, d),
                             AfterManage([d EXCEPT !.total = SumSizes(existingFiles)], FALSE))
       ELSE LET totalSize == SumSizes(existingFiles) IN
            IF OverLimit(totalSize) /\ ~BelowLowWater(totalSize) /\ existingFiles # {}
            THEN \E snap \in sortedFiles(existingFiles) :
                    /\ downloads' = Add(Remove(downloads, d),
                                        [d EXCEPT !.pc = "evict", !.snap = snap, !.i = 1,
                                                  !.cur = totalSize, !.total = totalSize])
            ELSE /\ downloads' = Add(Remove(downloads, d),
                                     AfterManage([d EXCEPT !.total = totalSize], TRUE))
    /\ UNCHANGED <<source, options, videoSource, isLoading, error, cacheProgress,
                   isCached, dirExists, files, checks, clears, settled, cleared, nCalls>>

\* deleteAsync(file.path) resolves or rejects (it rejects when the file is gone);
\* a rejection leaves the loop through manageCacheSize's catch
DlEvict(d, fault) ==
    /\ Faulty(fault)
    /\ d \in BagToSet(downloads)
    /\ d.pc = "evict"
    /\ LET file == d.snap[d.i]
           rest == BagOfAll(Disturbed, Remove(downloads, d))
       IN  IF fault \/ ~StatExists(cacheDir \o file.name)
           THEN /\ downloads' = Add(Remove(downloads, d), AfterManage(d, FALSE))
                /\ UNCHANGED files
           ELSE LET currentSize == d.cur - file.size
                    next == [d EXCEPT !.i = d.i + 1, !.cur = currentSize]
                IN  /\ files' = Without(file.name)
                    /\ IF d.i = Len(d.snap) \/ BelowLowWater(currentSize)
                       THEN downloads' = Add(rest, AfterManage(next, d.nofault))
                       ELSE downloads' = Add(rest, next)
    /\ UNCHANGED <<source, options, videoSource, isLoading, error, cacheProgress,
                   isCached, dirExists, checks, clears, settled, cleared, nCalls>>

(***************************************************************************)
(* downloadVideo after manageCacheSize.                                    *)
(***************************************************************************)
\* the locals of manageCacheSize are gone once the transfer starts
Transferring(d) ==
    [NewDownload(d.url, d.origin) EXCEPT !.pc = "download", !.path = d.path]

\* "Check if already cached": the stat of checkIfCached(url) resolves; on a miss
\* createDownloadResumable(...).downloadAsync() is called
DlRecheck(d, fault) ==
    /\ Faulty(fault)
    /\ d \in BagToSet(downloads)
    /\ d.pc = "recheck"
    /\ IF checkIfCached(d.path, fault)
       THEN /\ isCached' = TRUE
            /\ isLoading' = FALSE
            /\ downloads' = Remove(downloads, d)
       ELSE /\ downloads' = Add(Remove(downloads, d), Transferring(d))
            /\ UNCHANGED <<isCached, isLoading>>
    /\ UNCHANGED <<source, options, videoSource, error, cacheProgress, dirExists,
                   files, checks, clears, settled, cleared, nCalls>>

\* the (totalBytesWritten, totalBytesExpectedToWrite) pairs the transport reports
ProgressEvents == {<<1, 2>>}

\* Math.round(written / expected * 100) for expected # 0: the largest integer
\* that is at most written / expected * 100 + 1/2
roundPercent(written, expected) ==
    IF expected > 0
    THEN (200 * written + expected) \div (2 * expected)
    ELSE (0 - (200 * written + expected)) \div (0 - 2 * expected)

\* the progress callback of createDownloadResumable
DlProgress(d, written, expected) ==
    /\ d \in BagToSet(downloads)
    /\ d.pc = "download"
    /\ cacheProgress' = roundPercent(written, expected)
    /\ cacheProgress' # cacheProgress
    /\ UNCHANGED <<source, options, videoSource, isLoading, error, isCached, dirExists,
                   files, checks, downloads, clears, settled, cleared, nCalls, nFaults>>

\* the file name of a path inside cacheDir
NameOf(path) == SubSeq(path, Len(cacheDir) + 1, Len(path))

\* mutant of ServedAfterDownload: the downloaded file is swapped in
ServedAfterDownload_HotSwap(d) == d.path

\* what is served once a download has succeeded: downloadVideo never calls
\* setVideoSource
ServedAfterDownload(d) == videoSource

\* downloadAsync() resolves with a result: the file is at filePath
DlDone(d, size) ==
    /\ d \in BagToSet(downloads)
    /\ d.pc = "download"
    /\ dirExists
    /\ files' = Without(NameOf(d.path)) \cup {File(NameOf(d.path), size, now)}
    /\ videoSource' = ServedAfterDownload(d)
    /\ isCached' = TRUE
    /\ cacheProgress' = 100
    /\ isLoading' = FALSE
    /\ downloads' = BagOfAll(Disturbed, Remove(downloads, d))
    /\ cleared' = [status |-> "no", had |-> {}]
    /\ UNCHANGED <<source, options, error, dirExists, checks, clears, settled, nCalls, nFaults>>

\* downloadAsync() rejects (a transport fault, or no directory to write into),
\* leaving nothing or a partial file at filePath; or it resolves without a result
\* and downloadVideo throws 'Download failed' itself
DlFail(d, message, partial) ==
    /\ Faulty(TRUE)
    /\ d \in BagToSet(downloads)
    /\ d.pc = "download"
    /\ error' = message
    /\ isLoading' = FALSE
    /\ IF partial = 0
       THEN /\ downloads' = Remove(downloads, d)
            /\ UNCHANGED <<files, cleared>>
       ELSE /\ dirExists
            /\ message = "transport error"
            /\ files' = Without(NameOf(d.path)) \cup {File(NameOf(d.path), partial, now)}
            /\ downloads' = BagOfAll(Disturbed, Remove(downloads, d))
            /\ cleared' = [status |-> "no", had |-> {}]
    /\ UNCHANGED <<source, options, videoSource, cacheProgress, isCached, dirExists,
                   checks, clears, settled, nCalls>>

(***************************************************************************)
(* clearCache, one action per await.                                       *)
(***************************************************************************)
\* mutant of ClearShouldDelete: the test is inverted
ClearShouldDelete_Inverted(exists) == ~exists

\* if (dirInfo.exists)
ClearShouldDelete(exists) == exists

\* clearCache() is called and suspends at getInfoAsync(cacheDir)
ClearStart ==
    /\ nCalls < MaxCalls
    /\ nCalls' = nCalls + 1
    /\ clears' = Add(clears, [pc |-> "stat", had |-> {f.name : f \in files}])
    /\ UNCHANGED <<source, options, videoSource, isLoading, error, cacheProgress,
                   isCached, dirExists, files, checks, downloads, settled,
                   cleared, nFaults>>

\* getInfoAsync(cacheDir) resolves or rejects
ClearStat(c, fault) ==
    /\ Faulty(fault)
    /\ c \in BagToSet(clears)
    /\ c.pc = "stat"
    /\ IF fault
       THEN /\ error' = "Failed to clear cache"
            /\ clears' = Remove(clears, c)
            /\ cleared' = [status |-> "failed", had |-> c.had]
            /\ UNCHANGED <<isCached, cacheProgress>>
       ELSE IF ClearShouldDelete(dirExists)
       THEN /\ clears' = Add(Remove(clears, c), [c EXCEPT !.pc = "delete"])
            /\ UNCHANGED <<error, isCached, cacheProgress, cleared>>
       ELSE /\ isCached' = FALSE
            /\ cacheProgress' = 0
            /\ clears' = Remove(clears, c)
            /\ cleared' = [status |-> "ok", had |-> c.had]
            /\ UNCHANGED error
    /\ UNCHANGED <<source, options, videoSource, isLoading, dirExists, files,
                   checks, downloads, settled, nCalls>>

\* deleteAsync(cacheDir) resolves, or rejects (as it does when the directory is gone)
ClearDelete(c, fault) ==
    /\ Faulty(fault)
    /\ c \in BagToSet(clears)
    /\ c.pc = "delete"
    /\ clears' = Remove(clears, c)
    /\ IF fault \/ ~dirExists
       THEN /\ error' = "Failed to clear cache"
            /\ cleared' = [status |-> "failed", had |-> c.had]
            /\ UNCHANGED <<isCached, cacheProgress, dirExists, files, downloads>>
       ELSE /\ dirExists' = FALSE
            /\ files' = {}
            /\ isCached' = FALSE
            /\ cacheProgress' = 0
            /\ downloads' = BagOfAll(Disturbed, downloads)
            /\ cleared' = [status |-> "ok", had |-> c.had]
            /\ UNCHANGED error
    /\ UNCHANGED <<source, options, videoSource, isLoading, checks, settled, nCalls>>

(***************************************************************************)
(* The specification.                                                      *)
(***************************************************************************)
Next ==
    \/ \E uri \in Urls \cup {Empty}, useCaching \in BOOLEAN : SetRequest(uri, useCaching)
    \/ \E c \in BagToSet(checks), fault \in BOOLEAN : CheckSettle(c, fault)
    \/ \E url \in Urls : Preload(url)
    \/ \E d \in BagToSet(downloads), fault \in BOOLEAN : DlEnsure(d, fault)
    \/ \E d \in BagToSet(downloads), fault \in BOOLEAN : DlMkdir(d, fault)
    \/ \E d \in BagToSet(downloads), fault \in BOOLEAN : DlReadDir(d, fault)
    \/ \E d \in BagToSet(downloads), fault \in BOOLEAN : DlEvict(d, fault)
    \/ \E d \in BagToSet(downloads), fault \in BOOLEAN : DlRecheck(d, fault)
    \/ \E d \in BagToSet(downloads), e \in ProgressEvents : DlProgress(d, e[1], e[2])
    \/ \E d \in BagToSet(downloads), size \in FullSizes : DlDone(d, size)
    \/ \E d \in BagToSet(downloads), partial \in PartialSizes \cup {0},
          message \in {"transport error", "Download failed"} : DlFail(d, message, partial)
    \/ ClearStart
    \/ \E c \in BagToSet(clears), fault \in BOOLEAN : ClearStat(c, fault)
    \/ \E c \in BagToSet(clears), fault \in BOOLEAN : ClearDelete(c, fault)

Spec == Init /\ [][Next]_vars

(***************************************************************************)
(* The scenario of a request and its background fetch: caching and preload *)
(* are enabled, the cache directory is missing or holds other files above  *)
(* its limit, the caller only changes source.uri, between nothing and an   *)
(* identifier that has an extension, and no operation fails.  Every        *)
(* operation that was started completes: the promise an invocation awaits  *)
(* settles and the event loop runs its continuation.                       *)
(***************************************************************************)
\* the identifier's last path segment has an extension separator
HasExtension(uri) == Includes(LastPart(uri, "/"), ".")

FetchUrls == {u \in Urls : HasExtension(u)}

FetchDisks ==
    { [dirExists |-> FALSE, files |-> {}],
      [dirExists |-> TRUE, files |-> {File(NameO, 6, -2), File(NameB, 6, -1)}] }

FetchInit ==
    /\ source = [uri |-> Empty, useCaching |-> TRUE]
    /\ options = [enableCaching |-> TRUE, enablePreload |-> TRUE]
    /\ videoSource = Empty
    /\ isLoading = FALSE
    /\ error = NoError
    /\ cacheProgress = 0
    /\ isCached = FALSE
    /\ \E disk \in FetchDisks : dirExists = disk.dirExists /\ files = disk.files
    /\ checks = EmptyBag
    /\ downloads = EmptyBag
    /\ clears = EmptyBag
    /\ settled = TRUE
    /\ cleared = [status |-> "no", had |-> {}]
    /\ nCalls = 0
    /\ nFaults = 0

Completes ==
    \/ \E c \in BagToSet(checks) : CheckSettle(c, FALSE)
    \/ \E d \in BagToSet(downloads) : DlEnsure(d, FALSE)
    \/ \E d \in BagToSet(downloads) : DlMkdir(d, FALSE)
    \/ \E d \in BagToSet(downloads) : DlReadDir(d, FALSE)
    \/ \E d \in BagToSet(downloads) : DlEvict(d, FALSE)
    \/ \E d \in BagToSet(downloads) : DlRecheck(d, FALSE)
    \/ \E d \in BagToSet(downloads), size \in FullSizes : DlDone(d, size)

FetchNext ==
    \/ \E uri \in FetchUrls \cup {Empty} : nCalls < MaxRequests /\ Request(uri, TRUE)
    \/ \E d \in BagToSet(downloads), e \in ProgressEvents : DlProgress(d, e[1], e[2])
    \/ Completes

FetchSpec == FetchInit /\ [][FetchNext]_vars /\ WF_vars(Completes)

(***************************************************************************)
(* The same scenario without the fairness, with the progress events a      *)
(* transport may report: totalBytesExpectedToWrite is -1 when the server   *)
(* sends no length, and totalBytesWritten may pass it when the length sent *)
(* is too small.  (An expected length of 0 makes the quotient NaN or       *)
(* Infinity; that event is left out.)                                      *)
(***************************************************************************)
TransportEvents == (0..MaxBytes) \X ({-1} \cup (1..MaxBytes))

ProgressNext ==
    \/ \E uri \in FetchUrls \cup {Empty} : nCalls < MaxRequests /\ Request(uri, TRUE)
    \/ \E d \in BagToSet(downloads), e \in TransportEvents : DlProgress(d, e[1], e[2])
    \/ Completes

ProgressSpec == FetchInit /\ [][ProgressNext]_vars

(***************************************************************************)
(* Properties.                                                             *)
(***************************************************************************)
\* the local paths getCacheFilePath may have given for uri so far
LocalPaths(uri) == {getCacheFilePath(uri, t) : t \in 0..now}

\* the invocations of downloadVideo whose transfer is running
Transfers == {d \in BagToSet(downloads) : d.pc = "download"}

\* C1: single-flight per key.  No two fetches have a transfer running for the same
\* cache path at the same time: the transport is invoked at most once for a key
\* before one of the overlapping fetches has produced its result.
C1_SingleFlight ==
    \A d \in Transfers :
        /\ CopiesIn(d, downloads) = 1
        /\ \A e \in Transfers : e.path = d.path => e = d

\* C2: superseded results are discarded.  Once every existence check has
\* completed, what is served is the current identifier or its local path, whatever
\* the order the checks completed in.
C2_SupersededDiscarded ==
    (source.uri # Empty /\ ~CachingOff(source) /\ checks = EmptyBag)
        => videoSource \in {source.uri} \cup LocalPaths(source.uri)

\* C3: non-blocking miss.  The step in which an existence check settles with
\* "not cached" serves the identifier of that request, leaves the cache directory
\* as it is and leaves the background fetch, if enablePreload started one, at its
\* first await: no step of the fetch has completed.
C3_NonBlockingMiss ==
    [][\A c \in BagToSet(checks) :
          (checks' = Remove(checks, c) /\ ~isCached')
              => /\ videoSource' = c.uri
                 /\ files' = files
                 /\ dirExists' = dirExists
                 /\ downloads' = IF options.enablePreload
                                 THEN Add(downloads, NewDownload(c.uri, "effect"))
                                 ELSE downloads]_vars

\* a miss for the current request has just been served with the fetch started
C3_Witness ==
    /\ options.enablePreload
    /\ settled
    /\ source.uri # Empty
    /\ ~CachingOff(source)
    /\ videoSource = source.uri
    /\ ~isCached
    /\ NewDownload(source.uri, "effect") \in BagToSet(downloads)
    /\ nCalls = 1

\* the entries an eviction pass has deleted
Deleted(d) == {d.snap[k] : k \in 1..(d.i - 1)}

\* what C4 promises of a pass that has returned
EvictionPost(d) ==
    /\ 5 * SumSizes({f \in files : ~f.isDirectory}) <= 4 * maxCacheSize
    /\ \A kept \in {f \in files : ~f.isDirectory}, gone \in Deleted(d) :
          kept.mtime >= gone.mtime

C5_SizeCeiling ==
    (downloads = EmptyBag /\ nFaults = 0 /\ \E f \in files : f.mtime > 0)
        => SumSizes({f \in files : ~f.isDirectory}) <= maxCacheSize

C7_CachingDisabled ==
    (CachingOff(source) /\ source.uri # Empty) => videoSource = source.uri

\* C8: download failure.  The step in which the transfer of the background fetch
\* for the current identifier fails sets the error, ends loading, leaves what is
\* served and leaves no entry that a later existence check for the identifier
\* would find.
C8_DownloadFailure ==
    [][\A d \in Transfers :
          (/\ d.origin = "effect"
           /\ d.url = source.uri
           /\ nFaults' > nFaults
           /\ CopiesIn(d, downloads') < CopiesIn(d, downloads))
              => /\ error' # NoError
                 /\ ~isLoading'
                 /\ videoSource' = videoSource
                 /\ \A t \in (now + 1)..(MaxCalls + 1), f \in files' :
                       cacheDir \o f.name # getCacheFilePath(d.url, t)]_vars

\* C9: faults never leave the caller without a source.  An existence check whose
\* stat fails settles as "not cached" and serves the identifier of its request;
\* and every step that ends with the effect of the current request finished
\* serves something that is not empty, unless the identifier is.  (Initially the
\* identifier is empty.)
C9_FaultsLeaveASource ==
    [][/\ (settled' /\ source'.uri # Empty) => videoSource' # Empty
       /\ \A c \in BagToSet(checks) :
             (checks' = Remove(checks, c) /\ nFaults' > nFaults)
                 => videoSource' = c.uri /\ ~isCached']_vars

\* the only call was a request whose key is in the cache, its check failed and
\* the identifier is served
C9_Witness ==
    /\ nCalls = 1
    /\ nFaults = 1
    /\ settled
    /\ source.uri # Empty
    /\ ~CachingOff(source)
    /\ ~options.enablePreload
    /\ \E path \in LocalPaths(source.uri) : StatExists(path)
    /\ videoSource = source.uri
    /\ ~isCached

\* C10: fetches leave what is served unchanged.  Only a change of the source and
\* the settling of an existence check change videoSource: no step of preloadVideo
\* or downloadVideo does, however the fetch ends.
C10_FetchKeepsServed ==
    [][(source' = source /\ checks' = checks) => videoSource' = videoSource]_vars

\* the background fetch of the current request has downloaded the file, and the
\* identifier is still served
C10_Witness ==
    /\ nCalls = 1
    /\ nFaults = 0
    /\ downloads = EmptyBag
    /\ source.uri # Empty
    /\ videoSource = source.uri
    /\ isCached
    /\ cacheProgress = 100
    /\ \E path \in LocalPaths(source.uri) : StatExists(path)

\* C11: cache for next time.  For an identifier with an extension: a request whose
\* check settles serves the identifier when no entry is at its key, and the
\* local path with isCached = TRUE when one is; and its background fetch leads
\* to an entry at its key.  (In the scenario of FetchSpec: no fault, no clearCache.)
C11_CacheForNextTime ==
    /\ [][\A c \in BagToSet(checks) :
             (checks' = Remove(checks, c) /\ HasExtension(c.uri))
                 => IF StatExists(getCacheFilePath(c.uri, now))
                    THEN videoSource' = getCacheFilePath(c.uri, now) /\ isCached'
                    ELSE videoSource' = c.uri /\ ~isCached']_vars
    /\ \A uri \in FetchUrls :
          (\E d \in BagToSet(downloads) : d.url = uri /\ d.origin = "effect")
              ~> StatExists(getCacheFilePath(uri, now))

\* on a cache that was empty, the identifier was requested and fetched, the
\* source went away and came back, and the second request has settled on the
\* local path
C11_Witness ==
    /\ nCalls = 3
    /\ HasExtension(source.uri)
    /\ ~CachingOff(source)
    /\ settled
    /\ checks = EmptyBag
    /\ downloads = EmptyBag
    /\ files = {File(getCacheFilename(source.uri, now), 5, 1)}
    /\ videoSource = getCacheFilePath(source.uri, now)
    /\ isCached

\* C12: progress range.  cacheProgress is an integer from 0 to 100, whatever
\* progress events the transport delivers.
C12_ProgressRange == cacheProgress \in 0..100

\* a record equal to d is gone from the bag in this step
Moved(d) == CopiesIn(d, downloads') < CopiesIn(d, downloads)

\* the invocation d has run from its await in this step: its record is gone, and
\* not because another invocation's write to the directory was noted in it
OwnStep(d) ==
    /\ Moved(d)
    /\ Disturbed(d) # d
          => CopiesIn(Disturbed(d), downloads') <= CopiesIn(Disturbed(d), downloads)

\* C13: eviction survives a failed delete.  The step in which a deleteAsync of an
\* eviction pass fails, with entries left to try, leaves the pass in its loop at
\* the next entry of its list.
C13_EvictionSurvivesFailedDelete ==
    [][\A d \in BagToSet(downloads) :
          (/\ d.pc = "evict"
           /\ d.i < Len(d.snap)
           /\ nFaults' > nFaults
           /\ OwnStep(d))
              => \E e \in BagToSet(downloads') :
                    /\ e.pc = "evict"
                    /\ e.url = d.url
                    /\ e.origin = d.origin
                    /\ e.snap = d.snap
                    /\ e.i = d.i + 1]_vars

\* C14: isLoading tracks downloads.  While the transfer of a downloadVideo
\* invocation is running, isLoading is TRUE.
C14_LoadingTracksDownloads == Transfers # {} => isLoading

\* C15: FetchState reflects only the most recent request.  Once the effect of the
\* current source has finished and nothing is in flight, isCached is TRUE only
\* if an entry exists at the key of the current identifier.
C15_MostRecentRequestOnly ==
    (/\ settled
     /\ source.uri # Empty
     /\ checks = EmptyBag
     /\ downloads = EmptyBag
     /\ clears = EmptyBag
     /\ isCached)
        => \E path \in LocalPaths(source.uri) : StatExists(path)

\* the awaits of downloadVideo that come right before the given one
Before(pc) ==
    CASE pc = "mkdir" -> {"ensure"}
      [] pc = "readdir" -> {"ensure", "mkdir"}
      [] pc = "evict" -> {"readdir", "evict"}
      [] pc = "recheck" -> {"readdir", "evict", "recheck"}
      [] pc = "download" -> {"recheck"}
      [] OTHER -> {}

\* C16: fetch step order and hit short-circuit.  An invocation of downloadVideo
\* reaches each await from the one before it: the transport is invoked only from
\* the re-check, after the directory-ensure step and the eviction pass, and only
\* when the re-check did not find the file; a re-check that finds the file sets
\* isCached and ends the invocation without a transfer.
C16_FetchStepOrder ==
    [][/\ \A e \in BagToSet(downloads') :
             (CopiesIn(e, downloads') > CopiesIn(e, downloads) /\ e.pc # "ensure")
                 => \E d \in BagToSet(downloads) :
                       /\ Moved(d)
                       /\ d.url = e.url
                       /\ d.origin = e.origin
                       /\ d.pc \in Before(e.pc)
                       /\ e.pc = "download"
                             => /\ e.path = d.path
                                /\ ~StatExists(d.path) \/ nFaults' > nFaults
       /\ \A d \in BagToSet(downloads) :
             (/\ d.pc = "recheck"
              /\ OwnStep(d)
              /\ nFaults' = nFaults
              /\ StatExists(d.path))
                 => /\ isCached'
                    /\ downloads' = Remove(downloads, d)]_vars

\* preloadVideo was called for a file that is in the cache: its re-check found
\* the file, isCached is set and nothing was transferred
C16_Witness ==
    /\ nCalls = 1
    /\ nFaults = 0
    /\ source.uri = Empty
    /\ downloads = EmptyBag
    /\ isCached
    /\ cacheProgress = 0
    /\ \A f \in files : f.mtime <= 0
    /\ \E u \in Urls : StatExists(getCacheFilePath(u, now))

\* C17: eviction is a no-op under the ceiling.  The step in which manageCacheSize
\* has listed a directory whose regular files total at most maxCacheSize deletes
\* nothing and returns: the invocation is at its re-check, the directory as it was.
C17_NoEvictionUnderCeiling ==
    [][\A d \in BagToSet(downloads) :
          (/\ d.pc = "readdir"
           /\ Moved(d)
           /\ SumSizes({f \in files : ~f.isDirectory}) <= maxCacheSize)
              => /\ files' = files
                 /\ dirExists' = dirExists
                 /\ \E e \in BagToSet(downloads') :
                       /\ e.pc = "recheck"
                       /\ e.url = d.url
                       /\ e.origin = d.origin
                       /\ CopiesIn(e, downloads') > CopiesIn(e, downloads)]_vars

\* a pass has returned from a directory that holds exactly maxCacheSize, which is
\* above the low-water mark, with every file still there
C17_Witness ==
    /\ nCalls = 1
    /\ nFaults = 0
    /\ \E d \in BagToSet(downloads) : d.pc = "recheck"
    /\ SumSizes({f \in files : ~f.isDirectory}) = maxCacheSize
    /\ Cardinality({f \in files : ~f.isDirectory /\ f.mtime <= 0}) = 2

\* C18: extensionless identifiers never hit.  The step in which the existence check
\* of a request for an identifier without an extension settles serves the
\* identifier and leaves isCached FALSE: the check never finds a file.
C18_ExtensionlessNeverHits ==
    [][\A c \in BagToSet(checks) :
          (checks' = Remove(checks, c) /\ ~HasExtension(c.uri))
              => videoSource' = c.uri /\ ~isCached']_vars

\* C19: clearCache outcome.  No step of clearCache changes videoSource or
\* isLoading; the step in which clearCache returns leaves isCached FALSE and
\* cacheProgress 0, whether its stat and delete succeeded or not, and sets the
\* error if one of them failed.
C19_ClearOutcome ==
    [][clears' # clears
          => /\ videoSource' = videoSource
             /\ isLoading' = isLoading
             /\ \A c \in BagToSet(clears) :
                   clears' = Remove(clears, c)
                       => /\ ~isCached'
                          /\ cacheProgress' = 0
                          /\ (nFaults' > nFaults \/ (c.pc = "delete" /\ ~dirExists))
                                => error' = "Failed to clear cache"]_vars

\* C20: isLoading is FALSE in every quiescent state.  Whenever no existence check
\* and no downloadVideo invocation is in flight, isLoading is FALSE.
C20_QuiescentNotLoading ==
    (checks = EmptyBag /\ downloads = EmptyBag) => ~isLoading

\* two calls were made, a fetch has ended in its catch block, nothing is in
\* flight any more and isLoading is FALSE
C20_Witness ==
    /\ nCalls = 2
    /\ nFaults = 1
    /\ error = "storage error"
    /\ checks = EmptyBag
    /\ downloads = EmptyBag
    /\ source.uri # Empty
    /\ ~isLoading

\* a path under the cache directory, as getCacheFilePath builds it
IsCachePath(path) ==
    /\ Len(path) > Len(cacheDir)
    /\ SubSeq(path, 1, Len(cacheDir)) = cacheDir

\* C21: a served local path is backed by a file.  Whenever videoSource is a path
\* under the cache directory, a file of that path exists in the cache directory:
\* neither the eviction pass of a later fetch nor clearCache leaves videoSource
\* pointing at a deleted entry.
C21_ServedPathBacked ==
    IsCachePath(videoSource) => dirExists /\ StatExists(videoSource)

=============================================================================
